---- MODULE Spec2Model ----
(***************************************************************************)
(* A model of the OSAE control surface: the VS Code extension host that   *)
(* creates a task on the worker and polls it (extension.ts, in its two     *)
(* builds), and the webview UI that merges the forwarded messages into one *)
(* snapshot and carries the approval gate (App.tsx, in its two builds).    *)
(*                                                                         *)
(* JSON values are tagged records, so that the typeof / Array.isArray      *)
(* tests of the code are computed and not assumed.                         *)
(***************************************************************************)
EXTENDS Integers, Sequences, FiniteSets, TLC

VARIABLES
    uiBuild,        \* which App is loaded: "approval" (part_003) or "basic" (App.tsx)
    data,           \* the App's useState snapshot
    approvalShown,  \* whether the last render shows the ApprovalCard
    winQueue,       \* messages posted to the webview window, not yet dispatched
    approvals,      \* approval fetches in flight: the closure of handleApprove/handleReject
    approveLog,     \* the decision POSTs issued to the worker so far (as a set)
    hostBuild,      \* which extension is running: "fallback" (extension.ts) or "pinned" (part_000)
    inv,            \* the closure of each osae.start invocation
    channel,        \* messages handed to panel.webview.postMessage, not yet received
    latest,         \* history: the invocation that started its task last (0: none has)
    env,            \* the machine when activate is called: platform, answering launchers, bundled venv
    ext,            \* the extension module: activation, pythonProcess, commands, errors shown
    proc            \* the worker process the extension launched, if any

uiVars == <<uiBuild, data, approvalShown, winQueue, approvals, approveLog>>
launchVars == <<env, ext, proc>>
hostVars == <<hostBuild, inv, channel, latest, launchVars>>
vars == <<uiVars, hostVars>>

-----------------------------------------------------------------------------
(* JSON values *)

Undef == [t |-> "undefined"]
Null == [t |-> "null"]
Str(s) == [t |-> "string", s |-> s]
Num(n) == [t |-> "number", n |-> n]
Arr(a) == [t |-> "array", a |-> a]
Obj(o) == [t |-> "object", o |-> o]
EmptyObj == Obj(<<>>)

\* v.f of JavaScript: undefined when v has no such own property.
Prop(v, f) == IF v.t = "object" /\ f \in DOMAIN v.o THEN v.o[f] ELSE Undef

\* a ?? b
Coalesce(a, b) == IF a.t \in {"undefined", "null"} THEN b ELSE a

\* a truthiness test, as in `x && ...`
Truthy(v) ==
    CASE v.t \in {"undefined", "null"} -> FALSE
      [] v.t = "string" -> v.s # ""
      [] v.t = "number" -> v.n # 0
      [] OTHER -> TRUE

\* a[0] of an array value
First(v) == IF v.t = "array" /\ Len(v.a) > 0 THEN v.a[1] ELSE Undef

-----------------------------------------------------------------------------
(* Strings: String.prototype.toLowerCase and String.prototype.includes *)

UpperLetters == "ABCDEFGHIJKLMNOPQRSTUVWXYZ"
LowerLetters == "abcdefghijklmnopqrstuvwxyz"

\* the lower-case letter of each upper-case one
LowerOf ==
    [c \in {SubSeq(UpperLetters, i, i) : i \in 1..Len(UpperLetters)} |->
        LET i == CHOOSE j \in 1..Len(UpperLetters) : SubSeq(UpperLetters, j, j) = c
        IN  SubSeq(LowerLetters, i, i)]

LowerChar(c) == IF c \in DOMAIN LowerOf THEN LowerOf[c] ELSE c

RECURSIVE ToLowerCase(_)
ToLowerCase(s) ==
    IF Len(s) = 0 THEN ""
    ELSE LowerChar(SubSeq(s, 1, 1)) \o ToLowerCase(SubSeq(s, 2, Len(s)))

Includes(s, k) ==
    \E i \in 1..(Len(s) - Len(k) + 1) : SubSeq(s, i, i + Len(k) - 1) = k

-----------------------------------------------------------------------------
(* The webview UI: the window 'message' handler and its setData reducer *)

\* useState's initial value; thought_trace and active_model start undefined.
InitialData ==
    [prompt |-> Str(""), plan |-> Arr(<<>>), currentStepIndex |-> Num(0),
     artifacts |-> Arr(<<>>), next |-> Undef, taskId |-> Undef,
     proposedToolCall |-> Undef, thought_trace |-> Undef, active_model |-> Undef]

\* a field the message omits is cleared instead of kept
PickString_NoFallback(msg, raw, prev, f) ==
    IF Prop(msg, f).t = "string" THEN Prop(msg, f) ELSE Prop(raw, f)

\* typeof msg.f === 'string' ? msg.f : typeof raw.f === 'string' ? raw.f : prev.f
PickString(msg, raw, prev, f) ==
    IF Prop(msg, f).t = "string" THEN Prop(msg, f)
    ELSE IF Prop(raw, f).t = "string" THEN Prop(raw, f)
    ELSE prev[f]

\* a deep merge in place of the replacement: the incoming array is appended
PickArray_Append(msg, raw, prev, f) ==
    IF Prop(msg, f).t = "array" THEN Arr(prev[f].a \o Prop(msg, f).a)
    ELSE IF Prop(raw, f).t = "array" THEN Arr(prev[f].a \o Prop(raw, f).a)
    ELSE prev[f]

\* Array.isArray(msg.f) ? msg.f : Array.isArray(raw.f) ? raw.f : prev.f
PickArray(msg, raw, prev, f) ==
    IF Prop(msg, f).t = "array" THEN Prop(msg, f)
    ELSE IF Prop(raw, f).t = "array" THEN Prop(raw, f)
    ELSE prev[f]

\* the incoming number is taken as a step forward from the previous one
PickNumber_Adds(msg, raw, prev, f) ==
    IF Prop(msg, f).t = "number" THEN Num(prev[f].n + Prop(msg, f).n)
    ELSE IF Prop(raw, f).t = "number" THEN Num(prev[f].n + Prop(raw, f).n)
    ELSE prev[f]

\* the fallback to prev.f forgotten
PickNumber_NoFallback(msg, raw, prev, f) ==
    IF Prop(msg, f).t = "number" THEN Prop(msg, f) ELSE Prop(raw, f)

\* typeof msg.f === 'number' ? msg.f : typeof raw.f === 'number' ? raw.f : prev.f
PickNumber(msg, raw, prev, f) ==
    IF Prop(msg, f).t = "number" THEN Prop(msg, f)
    ELSE IF Prop(raw, f).t = "number" THEN Prop(raw, f)
    ELSE prev[f]

\* Array.isArray(o.artifacts) && o.artifacts[0] && typeof o.artifacts[0].call === 'string'
HasArtifactCall(o) ==
    /\ Prop(o, "artifacts").t = "array"
    /\ Truthy(First(Prop(o, "artifacts")))
    /\ Prop(First(Prop(o, "artifacts")), "call").t = "string"

PickProposedToolCall(msg, raw, prev) ==
    IF Prop(msg, "proposedToolCall").t = "string" THEN Prop(msg, "proposedToolCall")
    ELSE IF Prop(raw, "proposedToolCall").t = "string" THEN Prop(raw, "proposedToolCall")
    ELSE IF HasArtifactCall(msg) THEN Prop(First(Prop(msg, "artifacts")), "call")
    ELSE IF HasArtifactCall(raw) THEN Prop(First(Prop(raw, "artifacts")), "call")
    ELSE prev.proposedToolCall

\* const raw = event.data ?? {}
RawOf(eventData) == Coalesce(eventData, EmptyObj)

\* the envelope is not opened
PayloadOf_NoUnwrap(eventData) == RawOf(eventData)

\* const msg = raw.data ?? raw
PayloadOf(eventData) == Coalesce(Prop(RawOf(eventData), "data"), RawOf(eventData))

\* the reducer of the build with the approval gate
MergeApproval(prev, eventData) ==
    LET raw == RawOf(eventData)
        msg == PayloadOf(eventData)
    IN  [prompt |-> PickString(msg, raw, prev, "prompt"),
         plan |-> PickArray(msg, raw, prev, "plan"),
         currentStepIndex |-> PickNumber(msg, raw, prev, "currentStepIndex"),
         artifacts |-> PickArray(msg, raw, prev, "artifacts"),
         next |-> PickString(msg, raw, prev, "next"),
         taskId |-> PickString(msg, raw, prev, "taskId"),
         proposedToolCall |-> PickProposedToolCall(msg, raw, prev),
         thought_trace |-> PickString(msg, raw, prev, "thought_trace"),
         active_model |-> PickString(msg, raw, prev, "active_model")]

\* the reducer of the earlier build: four fields, the rest is ...prev
MergeBasic(prev, eventData) ==
    LET raw == RawOf(eventData)
        msg == PayloadOf(eventData)
    IN  [prev EXCEPT
            !.prompt = PickString(msg, raw, prev, "prompt"),
            !.plan = PickArray(msg, raw, prev, "plan"),
            !.currentStepIndex = PickNumber(msg, raw, prev, "currentStepIndex"),
            !.artifacts = PickArray(msg, raw, prev, "artifacts")]

Merge(build, prev, eventData) ==
    IF build = "approval" THEN MergeApproval(prev, eventData) ELSE MergeBasic(prev, eventData)

\* the fields each build's reducer assigns
SnapshotFields(build) ==
    IF build = "approval" THEN DOMAIN InitialData
    ELSE {"prompt", "plan", "currentStepIndex", "artifacts"}

Sentinel == "executor"

\* the toLowerCase() forgotten
isPausedForApproval_CaseSensitive(next) ==
    next.t = "string" /\ Includes(next.s, Sentinel)

isPausedForApproval(next) ==
    next.t = "string" /\ Includes(ToLowerCase(next.s), Sentinel)

\* {isPausedForApproval(data.next) && <ApprovalCard .../>}; the basic build has no card
RenderApproval(build, d) == build = "approval" /\ isPausedForApproval(d.next)

\* the 'message' listener: setData(prev => ...), then React renders
Handler(eventData) ==
    /\ data' = Merge(uiBuild, data, eventData)
    /\ approvalShown' = RenderApproval(uiBuild, data')

-----------------------------------------------------------------------------
(* The approval handlers of App (the ApprovalCard calls them: onApprove and *)
(* onReject are always wired, so the card's own postMessage fallback is not *)
(* reached)                                                                 *)

MaxApprovals == 1   \* decision requests in flight at once
MaxQueue == 1       \* messages the window has posted to itself, not yet dispatched

Envelope(type, payload) == Obj([type |-> Str(type), data |-> payload])

MissingTaskIdError(what) ==
    Envelope("approval:error", Obj([message |-> Str("taskId missing for " \o what)]))

FetchError == Envelope("approval:error", Obj([message |-> Str("TypeError: Failed to fetch")]))

Approved(taskId) == Envelope("approval:approved", Obj([taskId |-> taskId]))

Rejected(taskId, feedback) ==
    Envelope("approval:rejected", Obj([taskId |-> taskId, feedback |-> Str(feedback)]))

\* the feedback typed into the card before Reject is pressed
Feedbacks == {"no"}

\* window.postMessage(m, '*')
PostToWindow(m) ==
    /\ Len(winQueue) < MaxQueue
    /\ winQueue' = Append(winQueue, m)

\* handleApprove up to its await; the card is only there while the gate is shown
ClickApprove ==
    /\ approvalShown
    /\ IF ~Truthy(data.taskId)
       THEN /\ PostToWindow(MissingTaskIdError("approval"))
            /\ UNCHANGED <<approvals, approveLog>>
       ELSE /\ Len(approvals) < MaxApprovals
            /\ approvals' = Append(approvals, [taskId |-> data.taskId, approved |-> TRUE, feedback |-> ""])
            /\ approveLog' = approveLog \cup {[taskId |-> data.taskId.s, approved |-> TRUE]}
            /\ UNCHANGED winQueue
    /\ UNCHANGED <<uiBuild, data, approvalShown, hostVars>>

\* handleReject(feedback) up to its await
ClickReject(feedback) ==
    /\ approvalShown
    /\ IF ~Truthy(data.taskId)
       THEN /\ PostToWindow(MissingTaskIdError("rejection"))
            /\ UNCHANGED <<approvals, approveLog>>
       ELSE /\ Len(approvals) < MaxApprovals
            /\ approvals' = Append(approvals, [taskId |-> data.taskId, approved |-> FALSE, feedback |-> feedback])
            /\ approveLog' = approveLog \cup {[taskId |-> data.taskId.s, approved |-> FALSE]}
            /\ UNCHANGED winQueue
    /\ UNCHANGED <<uiBuild, data, approvalShown, hostVars>>

RemoveAt(q, i) == SubSeq(q, 1, i - 1) \o SubSeq(q, i + 1, Len(q))

\* how the awaited fetch of a decision may settle: it resolves with a success
\* status, resolves with another status (404, 500), or rejects
FetchOutcomes == {"ok", "notOk", "rejected"}

\* what the handler posts once its fetch has settled: res.ok is never looked at.
\* a.taskId is the closure's: the snapshot of the render that was clicked.
SettleMessage(a, outcome) ==
    IF outcome = "rejected" THEN FetchError
    ELSE IF a.approved THEN Approved(a.taskId)
    ELSE Rejected(a.taskId, a.feedback)

\* the awaited fetch settles
ApprovalSettles(i, outcome) ==
    /\ i \in 1..Len(approvals)
    /\ PostToWindow(SettleMessage(approvals[i], outcome))
    /\ approvals' = RemoveAt(approvals, i)
    /\ UNCHANGED <<uiBuild, data, approvalShown, approveLog, hostVars>>

\* the window dispatches a queued 'message' event to the listener
Dispatch ==
    /\ winQueue # <<>>
    /\ Handler(Head(winQueue))
    /\ winQueue' = Tail(winQueue)
    /\ UNCHANGED <<uiBuild, approvals, approveLog, hostVars>>

\* a message from outside the window arrives and is dispatched
WindowMessage(m) ==
    /\ Handler(m)
    /\ UNCHANGED <<uiBuild, winQueue, approvals, approveLog, hostVars>>

-----------------------------------------------------------------------------
(* The messages the window listener is exercised with *)

One(f, v) == Obj(f :> v)

StringFields ==
    {"prompt", "next", "taskId", "proposedToolCall", "thought_trace", "active_model"}
ArrayFields == {"plan", "artifacts"}
NumberFields == {"currentStepIndex"}

\* the type the reducer tests each field for
FieldType(f) ==
    IF f \in StringFields THEN "string" ELSE IF f \in ArrayFields THEN "array" ELSE "number"

CallArtifact == Obj([call |-> Str("run(b)")])
FileArtifact == Obj([filename |-> Str("a.txt"), code |-> Str("hi")])

\* values of the field's own type
GoodValues(f) ==
    CASE f = "prompt" -> {Str("x"), Str("y")}
      [] f = "plan" -> {Arr(<<Str("a"), Str("b")>>), Arr(<<Str("c")>>)}
      [] f = "currentStepIndex" -> {Num(1)}
      [] f = "artifacts" -> {Arr(<<FileArtifact>>)}
      [] f = "next" -> {Str("Executor")}
      [] f = "taskId" -> {Str("T1")}
      [] f = "proposedToolCall" -> {Str("write_file(a.txt)")}
      [] f = "thought_trace" -> {Str("thinking")}
      [] f = "active_model" -> {Str("qwen2.5-coder")}

\* values JSON can carry for the field that are not of its type
BadValues(f) == {Null, IF FieldType(f) = "string" THEN Num(7) ELSE Str("1")}

SingleFieldPayloads ==
    UNION {{One(f, v) : v \in GoodValues(f) \cup BadValues(f)} : f \in DOMAIN InitialData}

SimulatedPlan == Arr(<<Str("Gather context"), Str("Plan actions"), Str("Execute steps")>>)

MultiFieldPayloads ==
    { Obj([plan |-> Arr(<<Str("a"), Str("b")>>), currentStepIndex |-> Num(1)]),
      Obj([artifacts |-> Arr(<<CallArtifact>>)]),
      Obj([artifacts |-> Arr(<<CallArtifact>>), proposedToolCall |-> Str("write_file(a.txt)")]),
      Obj([next |-> Str("Executor"), proposedToolCall |-> Str("write_file(a.txt)")]),
      Obj([status |-> Str("running")]) }

\* envelopes that carry snapshot fields beside their data
MixedEnvelopes ==
    { Obj([type |-> Str("task_update"), prompt |-> Str("x"), data |-> One("prompt", Str("y"))]),
      Obj([type |-> Str("task_update"), prompt |-> Str("x"), data |-> One("prompt", Null)]),
      Obj([type |-> Str("task_update"), prompt |-> Str("y"), data |-> One("next", Str("Executor"))]),
      Obj([type |-> Str("task_update"), data |-> Str("oops")]),
      Obj([type |-> Str("task_update"), data |-> Null]),
      Obj([type |-> Str("task_started"), task_id |-> Str("T1")]),
      Null }

MergeMessages ==
    SingleFieldPayloads \cup MultiFieldPayloads
        \cup {Envelope("task_update", p) : p \in SingleFieldPayloads \cup MultiFieldPayloads}
        \cup MixedEnvelopes

UIInit ==
    /\ data = InitialData
    /\ approvalShown = FALSE
    /\ winQueue = <<>>
    /\ approvals = <<>>
    /\ approveLog = {}

MergeStep == \E m \in MergeMessages : WindowMessage(m)

-----------------------------------------------------------------------------
(* The approval gate: the UI with the card, fed the worker's poll responses  *)
(* as the extension forwards them ({type: 'task_update', data: json}) and    *)
(* its own approval notifications                                            *)

\* the values of next the gate is exercised with; the first three name the
\* execution stage
ExecutionStageNames == {"Executor", "EXECUTOR", "tool_executor"}
OtherStageNames == {"Planner", "Execute", ""}

NamesExecutionStage(v) == v.t = "string" /\ v.s \in ExecutionStageNames

TaskIds == {"T1", "T2"}

\* bodies of GET /task/{id}
GateResponses ==
    {One("next", Str(n)) : n \in ExecutionStageNames \cup OtherStageNames}
        \cup {One("next", Null), One("status", Str("running"))}
        \cup {One("taskId", Str(t)) : t \in TaskIds}
        \cup {Obj([next |-> Str("Executor"), proposedToolCall |-> Str("write_file(a.txt)")])}

WorkerUpdates == {Envelope("task_update", j) : j \in GateResponses}

TaskStarted(taskId) == Obj([type |-> Str("task_started"), task_id |-> Str(taskId)])

ApprovalNotifications ==
    {MissingTaskIdError("approval"), MissingTaskIdError("rejection"), FetchError}
        \cup {Approved(Str(t)) : t \in TaskIds}
        \cup {Rejected(Str(t), fb) : t \in TaskIds, fb \in Feedbacks}

GateStep ==
    \/ \E m \in WorkerUpdates \cup {TaskStarted(t) : t \in TaskIds} : WindowMessage(m)
    \/ ClickApprove
    \/ \E fb \in Feedbacks : ClickReject(fb)
    \/ \E i \in 1..MaxApprovals, outcome \in FetchOutcomes : ApprovalSettles(i, outcome)
    \/ Dispatch

-----------------------------------------------------------------------------
(* The extension host: the osae.start command, its create request, the poll *)
(* loop and, in the fallback build, the simulated run                        *)

MaxStarts == 2      \* osae.start invocations
MaxInflight == 2    \* poll ticks of one loop awaiting their response at once

Invocations == 1..MaxStarts

\* the locals of one invocation of the command handler
IdleInvocation ==
    [pc |-> "idle",          \* idle, fetching (await fetchFn), parsing (await res.json()), done
     res |-> "none",         \* what the create request resolved with: none, ok, notOk, absent
     taskId |-> "",          \* currentTaskId
     interval |-> "none",    \* the poll timer: none, active, cleared
     inflight |-> 0,         \* poll callbacks awaiting their response
     polled |-> {},          \* the task ids the loop has requested GET /task/{id} for
     sim |-> "none",         \* simInterval: none, active, cleared
     idx |-> 0,              \* the simulated run's idx
     deadline |-> "none",    \* timeoutHandle: none, armed, cleared, fired
     shown |-> "",           \* what the handler called showErrorMessage with
     panel |-> 0]            \* const panel = dashboardPanel!: the panel the handler captured

\* errors, as far as the catch clause looks at them
AbortError == [name |-> "AbortError", message |-> "This operation was aborted"]

\* what fetch rejects with when the worker cannot be reached
FetchRejections ==
    { [name |-> "TypeError", message |-> "fetch failed"],
      [name |-> "TypeError", message |-> "Failed to fetch"],
      [name |-> "Error", message |-> "connect ECONNREFUSED 127.0.0.1:8000"] }

\* bodies of a 2xx create response that are not JSON
MalformedBodies == {"<html>", "Connection reset"}

\* the SyntaxError of res.json(): the engine's message either gives the position
\* of the offending character or quotes it together with the text
JsonSyntaxErrors(text) ==
    { [name |-> "SyntaxError",
       message |-> "Unexpected token " \o SubSeq(text, 1, 1) \o " in JSON at position 0"],
      [name |-> "SyntaxError",
       message |-> "Unexpected token '" \o SubSeq(text, 1, 1) \o "', \"" \o text
                      \o "\" is not valid JSON"] }

\* reading data.task_id of a null body
NullBodyError ==
    [name |-> "TypeError", message |-> "Cannot read properties of null (reading 'task_id')"]

\* /ECONNREFUSED|connect|failed to fetch|NetworkError/i
NetworkPatterns == {"ECONNREFUSED", "connect", "failed to fetch", "NetworkError"}

\* the name of the error is not looked at
isNetworkError_MessageOnly(err) ==
    LET msg == IF err.message # "" THEN err.message ELSE err.name
    IN  \E k \in NetworkPatterns : Includes(ToLowerCase(msg), ToLowerCase(k))

\* err.name === 'AbortError' || /.../i.test(msg), msg being err.message or String(err)
isNetworkError(err) ==
    LET msg == IF err.message # "" THEN err.message ELSE err.name
    IN  \/ err.name = "AbortError"
        \/ \E k \in NetworkPatterns : Includes(ToLowerCase(msg), ToLowerCase(k))

\* the !res.ok half of the test forgotten
ResponseAccepted_Present(res) == res # "absent"

\* !(!res || !res.ok)
ResponseAccepted(res) == res = "ok"

\* the worker gives every task it creates an id of its own
IssuedTaskId(i) == "T" \o ToString(i)

\* parsed bodies of POST /task, for a task created with id t
CreateBodies(t) ==
    {One(k, Str(t)) : k \in {"task_id", "id", "taskId"}}
        \cup {EmptyObj, One("task_id", Str("")), Null}

\* data.task_id || data.id || data.taskId
TaskIdOf(d) ==
    IF Truthy(Prop(d, "task_id")) THEN Prop(d, "task_id")
    ELSE IF Truthy(Prop(d, "id")) THEN Prop(d, "id")
    ELSE Prop(d, "taskId")

\* parsed bodies of GET /task/{id}; one echoes the id under the name the App
\* reads, the last one reports a failed task
PollBodies(taskId) ==
    { One("status", Str("running")),
      One("task_status", Str("completed")),
      One("status", Str("completed")),
      One("state", Str("completed")),
      Obj([next |-> Str("Executor"), proposedToolCall |-> Str("write_file(a.txt)")]),
      One("next", Str("Planner")),
      Null,
      Obj([taskId |-> Str(taskId), status |-> Str("running")]),
      One("status", Str("failed")) }

\* only one of the three names is looked at
Completed_StatusOnly(json) == Prop(json, "status") = Str("completed")

\* json.task_status === 'completed' || json.status === 'completed' || json.state === 'completed'
Completed(json) ==
    \/ Prop(json, "task_status") = Str("completed")
    \/ Prop(json, "status") = Str("completed")
    \/ Prop(json, "state") = Str("completed")

SimTaskId == "sim-0"

SimStarted ==
    Obj([type |-> Str("task_started"), task_id |-> Str(SimTaskId), prompt |-> Str("Simulated run")])

SimUpdate(idx) ==
    Envelope("task_update", Obj([plan |-> SimulatedPlan, currentStepIndex |-> Num(idx)]))

\* the final update names completion under status only
SimFinal_StatusOnly(idx) ==
    Envelope("task_update",
             Obj([plan |-> SimulatedPlan, currentStepIndex |-> Num(idx),
                  status |-> Str("completed")]))

SimFinal(idx) ==
    Envelope("task_update",
             Obj([plan |-> SimulatedPlan, currentStepIndex |-> Num(idx),
                  status |-> Str("completed"), task_status |-> Str("completed"),
                  state |-> Str("completed")]))

\* The webview receives what the panel was sent before the extension host runs
\* its next callback: the host never reads the channel, so a longer delay shows
\* nothing new to either side.
ChannelClear == channel = <<>>

MaxPanels == 2   \* dashboard panels created
MaxTicks == 3    \* firings of one simulation timer

\* getWebviewContent(context, webview): the same document for the same panel
WebviewContent == "<div id=root></div><script src=media/index.js>"

\* the page of the webview is loaded afresh: the App is mounted with its
\* initial state, what the old page had pending is gone
PageLoads ==
    /\ data' = InitialData
    /\ approvalShown' = FALSE
    /\ winQueue' = <<>>
    /\ approvals' = <<>>
    /\ UNCHANGED <<uiBuild, approveLog>>

\* createWebviewPanel, webview.html = getWebviewContent(...), and the listeners:
\* the new panel's page loads
CreatePanel ==
    /\ ext.panelsCreated < MaxPanels
    /\ ext' = [ext EXCEPT !.panelId = ext.panelsCreated + 1,
                          !.panelsCreated = @ + 1,
                          !.panelsOpen = @ \cup {ext.panelsCreated + 1},
                          !.panelHtml = WebviewContent]
    /\ PageLoads

\* the command creates a panel whether or not there is one
OpenDashboard_AlwaysCreates ==
    /\ ext.commands
    /\ ChannelClear
    /\ CreatePanel
    /\ UNCHANGED <<hostBuild, inv, channel, latest, env, proc>>

\* the osae.openDashboard command: reveal the panel if the handle is set,
\* create one otherwise
OpenDashboard ==
    /\ ext.commands
    /\ ChannelClear
    /\ IF ext.panelId # 0 THEN UNCHANGED <<ext, uiVars>> ELSE CreatePanel
    /\ UNCHANGED <<hostBuild, inv, channel, latest, env, proc>>

\* the user closes a panel: its onDidDispose listener drops the handle; what
\* was posted and not yet received goes with the page
DisposePanel ==
    /\ \E p \in ext.panelsOpen :
          ext' = [ext EXCEPT !.panelsOpen = @ \ {p}, !.panelId = 0, !.panelHtml = ""]
    /\ channel' = <<>>
    /\ UNCHANGED <<hostBuild, inv, latest, env, proc, uiVars>>

\* the panel invocation i captured is the one that is open
PanelLive(i) == inv[i].panel # 0 /\ inv[i].panel = ext.panelId

\* what panel.webview.postMessage of a disposed panel fails with, when it
\* throws
WebviewDisposed == [name |-> "Error", message |-> "Webview is disposed"]

\* the command waits for a health check that succeeded
StartCommand_NeedsHealth(i) ==
    /\ ext.commands
    /\ ext.health = "succeeded"
    /\ ChannelClear
    /\ inv[i].pc = "idle"
    /\ \A j \in Invocations : j < i => inv[j].pc # "idle"
    /\ IF ext.panelId = 0 THEN CreatePanel ELSE UNCHANGED <<ext, uiVars>>
    /\ inv' = [inv EXCEPT ![i].pc = "fetching", ![i].deadline = "armed",
                          ![i].panel = ext'.panelId]
    /\ UNCHANGED <<hostBuild, env, proc, channel, latest>>

\* osae.start is invoked (the command is registered by activate): the
\* dashboard is opened if there is none, the handler captures the panel, and
\* runs up to the await of the create request
StartCommand(i) ==
    /\ ext.commands
    /\ ChannelClear
    /\ inv[i].pc = "idle"
    /\ \A j \in Invocations : j < i => inv[j].pc # "idle"
    /\ IF ext.panelId = 0 THEN CreatePanel ELSE UNCHANGED <<ext, uiVars>>
    /\ inv' = [inv EXCEPT ![i].pc = "fetching", ![i].deadline = "armed",
                          ![i].panel = ext'.panelId]
    /\ UNCHANGED <<hostBuild, env, proc, channel, latest>>

\* the message of the pinned build's showErrorMessage
CreateFailed == "Failed to create task"

\* the catch clause of the handler, entered with err
CatchCreate(i, err, deadline) ==
    IF hostBuild = "fallback" /\ isNetworkError(err)
    THEN IF PanelLive(i)
         THEN /\ inv' = [inv EXCEPT ![i].pc = "done", ![i].deadline = deadline,
                                    ![i].sim = "active", ![i].idx = 0]
              /\ channel' = <<SimStarted, SimUpdate(0)>>
         ELSE \* the panel is gone: the first postMessage throws out of the
              \* catch clause, or the two messages are lost
              /\ \E throws \in BOOLEAN :
                    inv' = [inv EXCEPT ![i].pc = "done", ![i].deadline = deadline,
                                       ![i].sim = IF throws THEN "none" ELSE "active",
                                       ![i].idx = 0]
              /\ UNCHANGED channel
    ELSE /\ inv' = [inv EXCEPT ![i].pc = "done", ![i].deadline = deadline,
                               ![i].shown = IF hostBuild = "pinned"
                                            THEN CreateFailed ELSE ""]
         /\ UNCHANGED channel

\* the create request resolves: clearTimeout, then the status test
CreateResolves(i, res) ==
    /\ ChannelClear
    /\ inv[i].pc = "fetching"
    /\ inv' = [inv EXCEPT ![i].res = res, ![i].deadline = "cleared",
                          ![i].pc = IF ResponseAccepted(res) THEN "parsing" ELSE "done"]
    /\ UNCHANGED <<hostBuild, launchVars, channel, latest, uiVars>>

\* the create request rejects: the timeout is left armed
CreateRejects(i, err) ==
    /\ ChannelClear
    /\ inv[i].pc = "fetching"
    /\ CatchCreate(i, err, inv[i].deadline)
    /\ UNCHANGED <<hostBuild, launchVars, latest, uiVars>>

\* the 3000 ms timeout fires: controller.abort()
DeadlineFires(i) ==
    /\ ChannelClear
    /\ inv[i].deadline = "armed"
    /\ IF inv[i].pc = "fetching"
       THEN CatchCreate(i, AbortError, "fired")
       ELSE /\ inv' = [inv EXCEPT ![i].deadline = "fired"]
            /\ UNCHANGED channel
    /\ UNCHANGED <<hostBuild, launchVars, latest, uiVars>>

\* res.json() resolves with data
CreateBodyParsed(i, d) ==
    /\ ChannelClear
    /\ inv[i].pc = "parsing"
    /\ IF d = Null
       THEN CatchCreate(i, NullBodyError, inv[i].deadline)
       ELSE IF ~Truthy(TaskIdOf(d))
       THEN /\ inv' = [inv EXCEPT ![i].pc = "done"]
            /\ UNCHANGED channel
       ELSE IF PanelLive(i)
       THEN /\ inv' = [inv EXCEPT ![i].pc = "done", ![i].taskId = TaskIdOf(d).s,
                                  ![i].interval = "active"]
            /\ channel' = <<TaskStarted(TaskIdOf(d).s)>>
       ELSE \* the panel is gone: postMessage throws into the catch clause, or
            \* task_started is lost and the loop starts
            \/ CatchCreate(i, WebviewDisposed, inv[i].deadline)
            \/ /\ inv' = [inv EXCEPT ![i].pc = "done", ![i].taskId = TaskIdOf(d).s,
                                      ![i].interval = "active"]
               /\ UNCHANGED channel
    /\ latest' = IF inv'[i].interval = "active" THEN i ELSE latest
    /\ UNCHANGED <<hostBuild, launchVars, uiVars>>

\* res.json() rejects
CreateBodyThrows(i, err) ==
    /\ ChannelClear
    /\ inv[i].pc = "parsing"
    /\ CatchCreate(i, err, inv[i].deadline)
    /\ UNCHANGED <<hostBuild, launchVars, latest, uiVars>>

\* the callback polls whichever task was started last
TimerFires_PollsLatest(i) ==
    /\ ChannelClear
    /\ inv[i].interval = "active"
    /\ inv[i].inflight < MaxInflight
    /\ inv' = [inv EXCEPT ![i].inflight = @ + 1, ![i].polled = @ \cup {inv[latest].taskId}]
    /\ UNCHANGED <<hostBuild, launchVars, channel, latest, uiVars>>

\* a tick is skipped while the request of an earlier one is pending
TimerFires_Serial(i) ==
    /\ ChannelClear
    /\ inv[i].interval = "active"
    /\ inv[i].inflight = 0
    /\ inv' = [inv EXCEPT ![i].inflight = @ + 1, ![i].polled = @ \cup {inv[i].taskId}]
    /\ UNCHANGED <<hostBuild, launchVars, channel, latest, uiVars>>

\* the poll timer fires: the callback issues GET /task/{currentTaskId}
TimerFires(i) ==
    /\ ChannelClear
    /\ inv[i].interval = "active"
    /\ inv[i].inflight < MaxInflight
    /\ inv' = [inv EXCEPT ![i].inflight = @ + 1, ![i].polled = @ \cup {inv[i].taskId}]
    /\ UNCHANGED <<hostBuild, launchVars, channel, latest, uiVars>>

\* a failed tick gives the loop up
TickFails_Stops(i) ==
    /\ ChannelClear
    /\ inv[i].inflight > 0
    /\ inv' = [inv EXCEPT ![i].inflight = @ - 1, ![i].interval = "cleared"]
    /\ UNCHANGED <<hostBuild, launchVars, channel, latest, uiVars>>

\* a failed poll request starts the simulation, as a failed create request does
TickFails_Simulates(i) ==
    /\ ChannelClear
    /\ inv[i].inflight > 0
    /\ IF hostBuild = "fallback" /\ inv[i].sim = "none"
       THEN /\ inv' = [inv EXCEPT ![i].inflight = @ - 1, ![i].sim = "active", ![i].idx = 0]
            /\ channel' = <<SimStarted, SimUpdate(0)>>
       ELSE /\ inv' = [inv EXCEPT ![i].inflight = @ - 1]
            /\ UNCHANGED channel
    /\ UNCHANGED <<hostBuild, launchVars, latest, uiVars>>

\* a poll callback ends without a body: the request rejects, resolves with
\* nothing, or its body does not parse; the error is logged
TickFails(i) ==
    /\ ChannelClear
    /\ inv[i].inflight > 0
    /\ inv' = [inv EXCEPT ![i].inflight = @ - 1]
    /\ UNCHANGED <<hostBuild, launchVars, channel, latest, uiVars>>

\* the completion test comes first and returns: the terminal body is not
\* forwarded
TickResponds_TestFirst(i, json) ==
    /\ ChannelClear
    /\ inv[i].inflight > 0
    /\ channel' = IF json # Null /\ Completed(json)
                  THEN channel ELSE <<Envelope("task_update", json)>>
    /\ inv' = [inv EXCEPT ![i].inflight = @ - 1,
                          ![i].interval = IF json # Null /\ Completed(json)
                                          THEN "cleared" ELSE @]
    /\ UNCHANGED <<hostBuild, launchVars, latest, uiVars>>

\* a poll callback gets its body: forward it, then the completion test
\* (reading a field of a null body throws, after the forward)
TickResponds(i, json) ==
    /\ ChannelClear
    /\ inv[i].inflight > 0
    /\ IF PanelLive(i)
       THEN /\ channel' = <<Envelope("task_update", json)>>
            /\ inv' = [inv EXCEPT ![i].inflight = @ - 1,
                                  ![i].interval = IF json # Null /\ Completed(json)
                                                  THEN "cleared" ELSE @]
       ELSE \* the panel is gone: postMessage throws into the callback's catch
            \* and the completion test is not reached, or the message is lost
            /\ UNCHANGED channel
            /\ \E throws \in BOOLEAN :
                  inv' = [inv EXCEPT ![i].inflight = @ - 1,
                                     ![i].interval = IF ~throws /\ json # Null /\ Completed(json)
                                                     THEN "cleared" ELSE @]
    /\ UNCHANGED <<hostBuild, launchVars, latest, uiVars>>

\* each tick of the simulation asks the worker for the simulated task
SimTick_Polls(i) ==
    /\ ChannelClear
    /\ inv[i].sim = "active"
    /\ LET n == inv[i].idx + 1
       IN  IF n >= Len(SimulatedPlan.a) - 1
           THEN /\ channel' = <<SimUpdate(n), SimFinal(n)>>
                /\ inv' = [inv EXCEPT ![i].idx = n, ![i].sim = "cleared",
                                      ![i].polled = @ \cup {SimTaskId}]
           ELSE /\ channel' = <<SimUpdate(n)>>
                /\ inv' = [inv EXCEPT ![i].idx = n, ![i].polled = @ \cup {SimTaskId}]
    /\ UNCHANGED <<hostBuild, launchVars, latest, uiVars>>

\* the simulation timer fires
SimTick(i) ==
    /\ ChannelClear
    /\ inv[i].sim = "active"
    /\ inv[i].idx < MaxTicks
    /\ LET n == inv[i].idx + 1
       IN  IF PanelLive(i)
           THEN IF n >= Len(SimulatedPlan.a) - 1
                THEN /\ channel' = <<SimUpdate(n), SimFinal(n)>>
                     /\ inv' = [inv EXCEPT ![i].idx = n, ![i].sim = "cleared"]
                ELSE /\ channel' = <<SimUpdate(n)>>
                     /\ inv' = [inv EXCEPT ![i].idx = n]
           ELSE \* the panel is gone: postMessage throws out of the callback
                \* after idx++ and clearInterval is not reached, or the
                \* messages are lost
                /\ UNCHANGED channel
                /\ \E throws \in BOOLEAN :
                      inv' = [inv EXCEPT ![i].idx = n,
                                         ![i].sim = IF ~throws /\ n >= Len(SimulatedPlan.a) - 1
                                                    THEN "cleared" ELSE @]
    /\ UNCHANGED <<hostBuild, launchVars, latest, uiVars>>

HostStep ==
    \/ \E i \in Invocations : StartCommand(i)
    \/ \E i \in Invocations, res \in {"ok", "notOk", "absent"} : CreateResolves(i, res)
    \/ \E i \in Invocations, err \in FetchRejections : CreateRejects(i, err)
    \/ \E i \in Invocations : DeadlineFires(i)
    \/ \E i \in Invocations : \E d \in CreateBodies(IssuedTaskId(i)) : CreateBodyParsed(i, d)
    \/ \E i \in Invocations, t \in MalformedBodies :
          \E err \in JsonSyntaxErrors(t) : CreateBodyThrows(i, err)
    \/ \E i \in Invocations : TimerFires(i)
    \/ \E i \in Invocations : TickFails(i)
    \/ \E i \in Invocations : \E json \in PollBodies(inv[i].taskId) : TickResponds(i, json)
    \/ \E i \in Invocations : SimTick(i)

\* the webview window receives a message of the extension
WebviewReceives ==
    /\ channel # <<>>
    /\ Handler(Head(channel))
    /\ channel' = Tail(channel)
    /\ UNCHANGED <<uiBuild, winQueue, approvals, approveLog, hostBuild, inv, latest, launchVars>>

-----------------------------------------------------------------------------
(* Launch and termination of the worker: spawnPythonServer, activate and     *)
(* deactivate of the two extension builds                                    *)

MaxDeactivations == 2   \* calls of deactivate()

Launchers == {"py", "python", "python3"}

\* const candidates = process.platform === 'win32' ? [...] : [...]
candidates(platform) ==
    IF platform = "win32" THEN <<"py", "python", "python3">> ELSE <<"python3", "python">>

\* the last candidate that answers is taken
FirstAnswering_Last(cands, answers) ==
    LET ok == {k \in 1..Len(cands) : cands[k] \in answers}
    IN  IF ok = {} THEN "" ELSE cands[CHOOSE k \in ok : \A j \in ok : j <= k]

\* the probing loop: pythonCmd is the first candidate whose spawnSync(--version)
\* returns status 0, "" (undefined) if the list is exhausted
RECURSIVE FirstAnswering(_, _)
FirstAnswering(cands, answers) ==
    IF cands = <<>> THEN ""
    ELSE IF Head(cands) \in answers THEN Head(cands)
    ELSE FirstAnswering(Tail(cands), answers)

\* the path of the bundled interpreter
VenvPython == "venv/bin/python"

NoProcess == [state |-> "none", cmd |-> "", kills |-> 0]

\* spawn(pythonCmd, ['-m', 'uvicorn', ...])
Spawned(pythonCmd) == [state |-> "running", cmd |-> pythonCmd, kills |-> 0]

NotActivated ==
    [pc |-> "init",             \* init, setup (awaiting ensureAgentServerSetup), active, failed
     pythonProcess |-> "absent",
     commands |-> FALSE,        \* osae.openDashboard / osae.start registered
     errors |-> {},             \* what showErrorMessage was called with
     health |-> "none",         \* the health check: none, armed (its timer is set),
                                \* skipped, requested, succeeded, failed, errored
     panelHtml |-> "",          \* dashboardPanel.webview.html, "" while there is no panel
     panelId |-> 0,             \* dashboardPanel: the panel it refers to, 0 when undefined
     panelsCreated |-> 0,       \* createWebviewPanel calls so far; panels are numbered by them
     panelsOpen |-> {},         \* the panels created and not disposed
     resetPending |-> 0,        \* osae.reset handlers awaiting POST /reset
     resetCalls |-> 0,          \* history: POST /reset requests issued
     resetOks |-> 0,            \* history: resets the worker answered with success
     deactivations |-> 0]

\* the messages of vscode.window.showErrorMessage
SetupSpawnError == "Failed to start AI runtime setup"
SetupStillMissing == "Setup completed but bundled Python not found"
SetupFailed == "AI runtime setup failed"
InitFailed == "Failed to initialize AI runtime"

\* how the first-run setup script may end; the last two leave a venv behind
SetupOutcomes == {"spawnError", "failed", "stillMissing", "usable", "unusable"}

\* spawnPythonServer of the launcher-probing build, then the rest of activate
ActivateProbing ==
    /\ hostBuild = "fallback"
    /\ ext.pc = "init"
    /\ LET pythonCmd == FirstAnswering(candidates(env.platform), env.answers)
       IN  IF pythonCmd = ""
           THEN /\ ext' = [ext EXCEPT !.pc = "active", !.commands = TRUE,
                                      !.health = "armed"]
                /\ UNCHANGED proc
           ELSE /\ ext' = [ext EXCEPT !.pc = "active", !.commands = TRUE,
                                      !.health = "armed", !.pythonProcess = "present"]
                /\ proc' = Spawned(pythonCmd)
    /\ UNCHANGED <<hostBuild, inv, channel, latest, env, uiVars>>

\* spawnPythonServer of the pinned build and what activate does with its result:
\* the probe's throw is caught inside spawnPythonServer, which returns undefined,
\* so the catch clause of activate is not entered; the health timer is set and
\* the commands are registered either way
LaunchPinned(venv, e) ==
    IF venv = "usable"
    THEN /\ ext' = [e EXCEPT !.pc = "active", !.commands = TRUE, !.health = "armed",
                              !.pythonProcess = "present"]
         /\ proc' = Spawned(VenvPython)
    ELSE /\ ext' = [e EXCEPT !.pc = "active", !.commands = TRUE, !.health = "armed",
                              !.pythonProcess = "absent"]
         /\ UNCHANGED proc

\* activate of the pinned build up to the end of ensureAgentServerSetup when
\* the interpreter file exists, up to the await of the setup script otherwise
ActivatePinned ==
    /\ hostBuild = "pinned"
    /\ ext.pc = "init"
    /\ IF env.venv # "missing"
       THEN LaunchPinned(env.venv, ext)
       ELSE /\ ext' = [ext EXCEPT !.pc = "setup"]
            /\ UNCHANGED proc
    /\ UNCHANGED <<hostBuild, inv, channel, latest, env, uiVars>>

\* the setup script ends ('error' or 'close'), and activate resumes
SetupEnds(outcome) ==
    /\ ext.pc = "setup"
    /\ IF outcome \in {"usable", "unusable"}
       THEN LaunchPinned(outcome, ext)
       ELSE /\ ext' = [ext EXCEPT !.pc = "failed",
                                  !.errors = @ \cup {InitFailed,
                                                     IF outcome = "spawnError" THEN SetupSpawnError
                                                     ELSE IF outcome = "stillMissing" THEN SetupStillMissing
                                                     ELSE SetupFailed}]
            /\ UNCHANGED proc
    /\ UNCHANGED <<hostBuild, inv, channel, latest, env, uiVars>>

\* the timer set by activate fires, 2000 ms after the launch: one GET /health
\* if the handle is set at that moment, a log line otherwise (fetch exists, as
\* it does for osae.start)
HealthTimerFires ==
    /\ ext.health = "armed"
    /\ ext' = [ext EXCEPT !.health = IF ext.pythonProcess = "present"
                                     THEN "requested" ELSE "skipped"]
    /\ UNCHANGED <<hostBuild, inv, channel, latest, env, proc, uiVars>>

\* how GET /health may end: res.ok, another status or no response, a rejection
HealthOutcomes == {"succeeded", "failed", "errored"}

\* pollHealthEndpoint resumes after its await: one log line
HealthSettles(outcome) ==
    /\ ext.health = "requested"
    /\ ext' = [ext EXCEPT !.health = outcome]
    /\ UNCHANGED <<hostBuild, inv, channel, latest, env, proc, uiVars>>

\* the 'exit' listener clears the poll timers
ProcessExits_StopsLoops ==
    /\ proc.state = "running"
    /\ proc' = [proc EXCEPT !.state = "exited"]
    /\ inv' = [i \in Invocations |->
                 [inv[i] EXCEPT !.interval = IF @ = "active" THEN "cleared" ELSE @]]
    /\ UNCHANGED <<hostBuild, channel, latest, env, ext, uiVars>>

\* the worker exits on its own (its 'exit' listener only logs)
ProcessExits ==
    /\ proc.state = "running"
    /\ proc' = [proc EXCEPT !.state = "exited"]
    /\ UNCHANGED <<hostBuild, inv, channel, latest, env, ext, uiVars>>

\* kill() is called outside try: when it throws, the exception leaves
\* deactivate and the handle is not dropped
deactivate_NoCatch(killThrows) ==
    /\ ext.pc # "init"
    /\ ext.deactivations < MaxDeactivations
    /\ IF ext.pythonProcess = "present"
       THEN /\ proc' = [proc EXCEPT !.kills = @ + 1]
            /\ ext' = [ext EXCEPT !.pythonProcess = IF killThrows THEN "present" ELSE "absent",
                                  !.deactivations = @ + 1]
       ELSE /\ ext' = [ext EXCEPT !.deactivations = @ + 1]
            /\ UNCHANGED proc
    /\ UNCHANGED <<hostBuild, inv, channel, latest, env, uiVars>>

\* deactivate(): kill() is called inside try, whether or not it throws the
\* handle is dropped
deactivate(killThrows) ==
    /\ ext.pc # "init"
    /\ ext.deactivations < MaxDeactivations
    /\ IF ext.pythonProcess = "present"
       THEN /\ proc' = [proc EXCEPT !.kills = @ + 1]
            /\ ext' = [ext EXCEPT !.pythonProcess = "absent", !.deactivations = @ + 1]
       ELSE /\ ext' = [ext EXCEPT !.deactivations = @ + 1]
            /\ UNCHANGED proc
    /\ UNCHANGED <<hostBuild, inv, channel, latest, env, uiVars>>

MaxResets == 2   \* POST /reset requests

\* what the webview may post to the extension
PanelMessages ==
    {Obj([type |-> Str("osae.reset")]), Obj([type |-> Str("osae.start")]), Null}

\* onDidReceiveMessage of the pinned build's panel: for osae.reset the command
\* is executed, up to its await of POST /reset
PanelReceives(msg) ==
    /\ hostBuild = "pinned"
    /\ ext.panelHtml # ""
    /\ ext.resetCalls < MaxResets
    /\ ext' = IF Truthy(msg) /\ Prop(msg, "type") = Str("osae.reset")
              THEN [ext EXCEPT !.resetPending = @ + 1, !.resetCalls = @ + 1]
              ELSE ext
    /\ UNCHANGED <<hostBuild, inv, channel, latest, env, proc, uiVars>>

\* webview.html = value: the setter hands the document to the renderer when it
\* differs from the one the webview holds
SetHtml(value) ==
    IF ext.panelHtml # value THEN PageLoads ELSE UNCHANGED uiVars

\* how POST /reset may end: success, another status, no response, a rejection
ResetOutcomes == {"ok", "notOk", "absent", "rejected"}

\* the osae.reset handler resumes after its await
ResetSettles(outcome) ==
    /\ ext.resetPending > 0
    /\ IF outcome = "ok"
       THEN IF ext.panelHtml # ""
            THEN /\ ext' = [ext EXCEPT !.resetPending = @ - 1, !.resetOks = @ + 1,
                                       !.panelHtml = WebviewContent]
                 /\ SetHtml(WebviewContent)
            ELSE /\ ext' = [ext EXCEPT !.resetPending = @ - 1, !.resetOks = @ + 1]
                 /\ UNCHANGED uiVars
       ELSE /\ ext' = [ext EXCEPT !.resetPending = @ - 1]
            /\ UNCHANGED uiVars
    /\ UNCHANGED <<hostBuild, inv, channel, latest, env, proc>>

LaunchStep ==
    \/ ActivateProbing
    \/ ActivatePinned
    \/ \E outcome \in SetupOutcomes : SetupEnds(outcome)
    \/ ProcessExits
    \/ \E killThrows \in BOOLEAN : deactivate(killThrows)
    \/ HealthTimerFires
    \/ \E outcome \in HealthOutcomes : HealthSettles(outcome)

\* the machines the extension is activated on
Machines ==
    [platform : {"win32", "unix"}, answers : SUBSET Launchers,
     venv : {"missing", "unusable", "usable"}]

\* a machine on which either build launches its worker, and the extension
\* activated on it
WorkingMachine == [platform |-> "unix", answers |-> {"python3"}, venv |-> "usable"]

Activated ==
    [NotActivated EXCEPT !.pc = "active", !.commands = TRUE, !.health = "armed",
                         !.pythonProcess = "present", !.panelHtml = WebviewContent,
                         !.panelId = 1, !.panelsCreated = 1, !.panelsOpen = {1}]

HostInit ==
    /\ inv = [i \in Invocations |-> IdleInvocation]
    /\ channel = <<>>
    /\ latest = 0
    /\ env = WorkingMachine
    /\ ext = Activated
    /\ proc = Spawned(IF hostBuild = "fallback" THEN "python3" ELSE VenvPython)

-----------------------------------------------------------------------------
(* Specifications *)

\* the extension and the webview it feeds: each build with the App of its time
Init ==
    /\ hostBuild \in {"fallback", "pinned"}
    /\ uiBuild = IF hostBuild = "fallback" THEN "basic" ELSE "approval"
    /\ HostInit
    /\ UIInit

Next ==
    \/ HostStep
    \/ WebviewReceives

Spec == Init /\ [][Next]_vars

\* the same, with what the event loop guarantees: an active timer fires, a
\* poll request settles one way or the other, a posted message is received.
\* Nothing obliges the worker to ever report completion.
TickSettles == \E i \in Invocations : TickFails(i) \/ \E json \in PollBodies(inv[i].taskId) : TickResponds(i, json)

Fairness ==
    /\ WF_vars(\E i \in Invocations : TimerFires(i))
    /\ WF_vars(TickSettles)
    /\ WF_vars(\E i \in Invocations : SimTick(i))
    /\ WF_vars(WebviewReceives)

SpecLive == Init /\ [][Next]_vars /\ Fairness

\* the extension and the webview, with a worker that may exit at any moment;
\* what a request gets after the exit is left open (the port may be served by
\* a worker the extension did not launch). The create deadline and an
\* unparsable create body play no part in it and are left to Spec.
InitOutage == Init

NextOutage ==
    \/ \E i \in Invocations : StartCommand(i)
    \/ \E i \in Invocations, res \in {"ok", "notOk", "absent"} : CreateResolves(i, res)
    \/ \E i \in Invocations, err \in FetchRejections : CreateRejects(i, err)
    \/ \E i \in Invocations : \E d \in CreateBodies(IssuedTaskId(i)) : CreateBodyParsed(i, d)
    \/ \E i \in Invocations : TimerFires(i)
    \/ \E i \in Invocations : TickFails(i)
    \/ \E i \in Invocations : \E json \in PollBodies(inv[i].taskId) : TickResponds(i, json)
    \/ \E i \in Invocations : SimTick(i)
    \/ WebviewReceives
    \/ ProcessExits

SpecOutage == InitOutage /\ [][NextOutage]_vars

\* the extension and the webview, with a user who closes the dashboard and
\* opens it again
InitReopen == Init

NextReopen ==
    \/ HostStep
    \/ WebviewReceives
    \/ OpenDashboard
    \/ DisposePanel

SpecReopen == InitReopen /\ [][NextReopen]_vars

\* the extension and the webview, with the health check pending and the
\* extension deactivated at any moment
InitShutdown == Init

NextShutdown ==
    \/ HostStep
    \/ WebviewReceives
    \/ HealthTimerFires
    \/ \E outcome \in HealthOutcomes : HealthSettles(outcome)
    \/ \E killThrows \in BOOLEAN : deactivate(killThrows)

SpecShutdown == InitShutdown /\ [][NextShutdown]_vars

\* launch and termination alone, on every machine
InitLaunch ==
    /\ hostBuild \in {"fallback", "pinned"}
    /\ uiBuild = IF hostBuild = "fallback" THEN "basic" ELSE "approval"
    /\ UIInit
    /\ inv = [i \in Invocations |-> IdleInvocation]
    /\ channel = <<>>
    /\ latest = 0
    /\ env \in Machines
    /\ ext = NotActivated
    /\ proc = NoProcess

NextLaunch == LaunchStep

SpecLaunch == InitLaunch /\ [][NextLaunch]_vars

\* launch, health check and termination, with the user invoking osae.start
InitProbe == InitLaunch

NextProbe ==
    \/ LaunchStep
    \/ \E i \in Invocations : StartCommand(i)

SpecProbe == InitProbe /\ [][NextProbe]_vars

\* launch and termination with the user at the commands: osae.start,
\* osae.openDashboard, and closing the dashboard
InitPanel == InitLaunch

NextPanel ==
    \/ LaunchStep
    \/ \E i \in Invocations : StartCommand(i)
    \/ OpenDashboard
    \/ DisposePanel

SpecPanel == InitPanel /\ [][NextPanel]_vars

\* the reducer alone, fed every message shape
InitMerge ==
    /\ uiBuild \in {"approval", "basic"}
    /\ hostBuild = IF uiBuild = "basic" THEN "fallback" ELSE "pinned"
    /\ HostInit
    /\ UIInit

NextMerge == MergeStep

SpecMerge == InitMerge /\ [][NextMerge]_vars

\* the App with the approval gate, fed poll responses and the user's decisions
InitApproval ==
    /\ uiBuild = "approval"
    /\ hostBuild = "pinned"
    /\ HostInit
    /\ UIInit

NextApproval == GateStep

SpecApproval == InitApproval /\ [][NextApproval]_vars

\* the pinned build's panel: the App fed poll responses, and the reset round
\* trip between the panel and the worker
InitReset == InitApproval

NextReset ==
    \/ \E m \in WorkerUpdates : WindowMessage(m)
    \/ \E msg \in PanelMessages : PanelReceives(msg)
    \/ \E outcome \in ResetOutcomes : ResetSettles(outcome)

SpecReset == InitReset /\ [][NextReset]_vars

\* the dashboard end to end: the extension feeding the App, and the user at the
\* approval card of the build that has one
UserStep ==
    \/ ClickApprove
    \/ \E fb \in Feedbacks : ClickReject(fb)
    \/ \E i \in 1..MaxApprovals, outcome \in FetchOutcomes : ApprovalSettles(i, outcome)
    \/ Dispatch

InitDashboard == Init

NextDashboard ==
    \/ HostStep
    \/ WebviewReceives
    \/ UserStep

SpecDashboard == InitDashboard /\ [][NextDashboard]_vars

-----------------------------------------------------------------------------
(* Claims about the merge *)

HasKey(v, f) == v.t = "object" /\ f \in DOMAIN v.o

\* the message contains the field, in its payload or beside it
Mentions(eventData, f) == HasKey(PayloadOf(eventData), f) \/ HasKey(RawOf(eventData), f)

\* the value the message carries for the field
MessageValue(eventData, f) ==
    IF HasKey(PayloadOf(eventData), f) THEN Prop(PayloadOf(eventData), f)
    ELSE Prop(RawOf(eventData), f)

\* the value of the field's own type that the message carries, if any
TypedValue(eventData, f) ==
    IF Prop(PayloadOf(eventData), f).t = FieldType(f) THEN Prop(PayloadOf(eventData), f)
    ELSE IF Prop(RawOf(eventData), f).t = FieldType(f) THEN Prop(RawOf(eventData), f)
    ELSE Undef

C5Fields ==
    {"prompt", "plan", "currentStepIndex", "artifacts", "next", "taskId",
     "thought_trace", "active_model"}

\* C5: whatever the snapshot, a message that does not contain one of the eight
\* fields leaves that field of the snapshot as it was.
C5_OmittedFieldKept ==
    \A m \in MergeMessages : \A f \in C5Fields :
        ~Mentions(m, f) => Merge(uiBuild, data, m)[f] = data[f]

\* a snapshot that held prompt 'x' took a plan-only message and still holds 'x'
C5_Witness ==
    /\ data.prompt = Str("x")
    /\ data.plan = Arr(<<Str("c")>>)
    /\ data.currentStepIndex = Num(1)

\* C6 as stated: a message that includes a field replaces the snapshot's value by
\* the message's value, whatever that value is.
C6_AnyValueReplaces ==
    \A m \in MergeMessages : \A f \in SnapshotFields(uiBuild) :
        Mentions(m, f) => Merge(uiBuild, data, m)[f] = MessageValue(m, f)

\* C6, amended: a value of the field's own type replaces the snapshot's value
\* wholesale; a message that carries only a value of another type for the field
\* changes it no more than a message that omits it.
C6_TypedValueReplaces ==
    \A m \in MergeMessages : \A f \in SnapshotFields(uiBuild) :
        /\ TypedValue(m, f) # Undef => Merge(uiBuild, data, m)[f] = TypedValue(m, f)
        /\ (TypedValue(m, f) = Undef /\ f # "proposedToolCall")
              => Merge(uiBuild, data, m)[f] = data[f]

\* a plan was replaced by a shorter one and a prompt by another
C6_Witness ==
    /\ data.plan = Arr(<<Str("c")>>)
    /\ data.prompt = Str("y")
    /\ data.artifacts = Arr(<<FileArtifact>>)

\* C7 as stated: after any poll response is applied, the gate is shown iff the
\* next of that response names the execution stage.
C7_GateFollowsLatestResponse ==
    \A m \in WorkerUpdates :
        RenderApproval(uiBuild, Merge(uiBuild, data, m))
            <=> NamesExecutionStage(Prop(PayloadOf(m), "next"))

\* C7, amended: the gate is shown iff the next of the merged snapshot names the
\* execution stage, in whatever letter case.
C7_GateFollowsMergedNext == approvalShown <=> NamesExecutionStage(data.next)

\* the gate is up on an upper-case next
C7_Witness == approvalShown /\ data.next = Str("EXECUTOR")

\* the string next the message carries, if any
NextOf(m) == TypedValue(m, "next")

\* C8 as stated: while the gate is up, every poll response that does not
\* indicate the execution stage clears it.
C8_ClearsOnAnyOtherResponse ==
    approvalShown =>
        \A m \in WorkerUpdates :
            ~NamesExecutionStage(Prop(PayloadOf(m), "next"))
                => ~RenderApproval(uiBuild, Merge(uiBuild, data, m))

\* C8, amended: while the gate is up, a message with a string next clears it
\* exactly when that next does not name the execution stage, and a message
\* without a string next leaves it up.
C8_ClearsOnOtherNext ==
    approvalShown =>
        \A m \in WorkerUpdates \cup ApprovalNotifications :
            RenderApproval(uiBuild, Merge(uiBuild, data, m))
                <=> (NextOf(m) = Undef \/ NamesExecutionStage(NextOf(m)))

\* the gate went up with a proposed action and a later next cleared it
C8_Witness ==
    /\ ~approvalShown
    /\ data.next = Str("Planner")
    /\ data.proposedToolCall = Str("write_file(a.txt)")

IsApprovalNotification(m) == m \in ApprovalNotifications

\* C9: a decision's notification, once dispatched, leaves every snapshot field
\* and the gate as they were; so do the two click handlers.
C9_DecisionLeavesSnapshot ==
    [][(\/ approvals' # approvals
        \/ (winQueue # <<>> /\ winQueue' = Tail(winQueue)
              /\ IsApprovalNotification(Head(winQueue))))
          => (data' = data /\ approvalShown' = approvalShown)]_vars

-----------------------------------------------------------------------------
(* Claims about the extension host *)

PollTimersActive == {i \in Invocations : inv[i].interval = "active"}

\* C1: across any sequence of osae.start invocations at most one poll timer is
\* active at any time (an earlier loop is cancelled before a new one is created).
C1_SinglePollTimer == Cardinality(PollTimersActive) <= 1

\* the names a worker may signal completion under
TerminalFieldNames == {"task_status", "status", "state"}

CompletionBodies == {One(f, Str("completed")) : f \in TerminalFieldNames}

\* a poll callback of loop i forwards json in this step
Forwards(i, json) ==
    /\ inv'[i].inflight < inv[i].inflight
    /\ channel = <<>>
    /\ channel' = <<Envelope("task_update", json)>>

\* C2: a poll response signalling completion under any of the three names
\* cancels the loop's timer; once cancelled the timer stays cancelled and no
\* further poll request of that loop is issued, also while and after the ticks
\* that were in flight at the cancellation get their responses.
C2_CompletionStopsPolling ==
    [][\A i \in Invocations :
          /\ (\E json \in CompletionBodies : Forwards(i, json)) => inv'[i].interval = "cleared"
          /\ inv[i].interval = "cleared" =>
                 inv'[i].interval = "cleared" /\ inv'[i].inflight <= inv[i].inflight]_vars

\* a loop was cancelled by {state: 'completed'} while another of its ticks is
\* still awaiting its response
C2_Witness ==
    \E i \in Invocations :
        /\ inv[i].interval = "cleared"
        /\ inv[i].inflight > 0
        /\ channel = <<Envelope("task_update", One("state", Str("completed")))>>

\* C3: in the fallback build a simulated run starts only when the create
\* request itself failed (abort, refused connection, network failure): never
\* once the request has resolved with a response, whatever its status or body.
C3_SimulationOnlyWhenUnreachable ==
    \A i \in Invocations : inv[i].sim # "none" => inv[i].res = "none"

\* this step is a step of invocation i that posts to the webview
Posts(i) == inv'[i] # inv[i] /\ channel' # channel

\* C4: a create response with a non-success status starts no simulated run,
\* creates no poll timer and posts nothing to the webview, in the step that
\* receives it and ever after.
C4_NonSuccessLeavesNoTrace ==
    [][\A i \in Invocations :
          inv'[i].res = "notOk" =>
              /\ inv'[i].sim = "none"
              /\ inv'[i].interval = "none"
              /\ inv'[i].taskId = ""
              /\ ~Posts(i)]_vars

\* a create request was answered with a non-success status while the other
\* invocation runs its task
C4_Witness ==
    \E i, j \in Invocations :
        /\ inv[i].res = "notOk" /\ inv[i].pc = "done"
        /\ inv[j].interval = "active"

\* the user presses Approve in this step: the handler either gives up for want
\* of a task id or issues its request
ApprovePressed ==
    \/ winQueue' = Append(winQueue, MissingTaskIdError("approval"))
    \/ Len(approvals') > Len(approvals) /\ approvals'[Len(approvals')].approved

\* POST /task/{taskId}/approve {approved: true} is issued in this step
ApprovePosted(taskId) ==
    approvals' = Append(approvals, [taskId |-> Str(taskId), approved |-> TRUE, feedback |-> ""])

\* C10: Scenario B: when the user approves at the prompt surfaced for a task the
\* extension announced with task_started, the approve request is issued for the
\* identifier of an announced task.
C10_ApproveIssuesRequest ==
    [][ApprovePressed =>
          \E i \in Invocations : inv[i].interval # "none" /\ ApprovePosted(inv[i].taskId)]_vars

-----------------------------------------------------------------------------
(* Claims about failures *)

\* the outcomes in which the decision POST has failed
FailedOutcomes == {"notOk", "rejected"}

TypeOf(m) == Prop(m, "type")

\* C11: whenever a decision POST fails, by rejecting or by a non-success status,
\* the handler posts approval:error and neither approval:approved nor
\* approval:rejected, and that message leaves next and the gate as they are.
C11_FailedDecisionSurfacesError ==
    \A i \in 1..Len(approvals) : \A outcome \in FailedOutcomes :
        LET m == SettleMessage(approvals[i], outcome)
        IN  /\ TypeOf(m) = Str("approval:error")
            /\ Merge(uiBuild, data, m).next = data.next
            /\ RenderApproval(uiBuild, Merge(uiBuild, data, m)) = approvalShown

\* a poll callback of loop i ends in this step without forwarding anything
TickEndsSilently(i) == inv'[i].inflight < inv[i].inflight /\ channel' = channel

\* C12: a failed poll tick (request error, no response, unparsable body, or a
\* body that cannot be examined) leaves the loop's timer active; an active
\* timer is cancelled only in a step that forwards a completion response.
C12_FailedTickKeepsLoop ==
    [][\A i \in Invocations :
          /\ TickEndsSilently(i) \/ Forwards(i, Null) => inv'[i].interval = inv[i].interval
          /\ inv[i].interval = "active" /\ inv'[i].interval # "active" =>
                 \E json \in CompletionBodies : Forwards(i, json)]_vars

\* a tick failed on a null body and the loop has issued its next request
C12_Witness ==
    \E i \in Invocations :
        /\ channel = <<Envelope("task_update", Null)>>
        /\ inv[i].interval = "active"
        /\ inv[i].inflight > 0

\* invocation i's task has been superseded: another invocation has started its
\* task since
Superseded(i) == inv[i].interval # "none" /\ latest # i

\* a poll callback of loop i forwards its response in this step
ForwardsResponse(i) == inv'[i].inflight < inv[i].inflight /\ channel' # channel

\* C13: a poll response that arrives for a task that has since been superseded
\* by a newer task is discarded: it is not forwarded to the webview.
C13_StaleResponseDiscarded ==
    [][\A i \in Invocations : Superseded(i) => ~ForwardsResponse(i)]_vars

\* C14: every poll loop that is started eventually stops.
C14_EveryLoopStops ==
    \A i \in Invocations : (inv[i].interval = "active") ~> (inv[i].interval = "cleared")

\* the terminal states a worker may report
TerminalStatuses == {"completed", "failed"}

TerminalBodies == {One(f, Str(st)) : f \in TerminalFieldNames, st \in TerminalStatuses}

\* C15: a poll response reporting a terminal state, failed as well as completed,
\* cancels the loop's timer.
C15_TerminalStateStopsPolling ==
    [][\A i \in Invocations :
          (\E json \in TerminalBodies : Forwards(i, json)) => inv'[i].interval = "cleared"]_vars

-----------------------------------------------------------------------------
(* Claims about launch and termination *)

\* deactivate() is called in this step
Deactivates == ext'.deactivations > ext.deactivations

\* C16: deactivate() may be called repeatedly, with no process ever started or
\* with one that already exited; after every call the handle is absent, a call
\* that finds no handle touches no process, and no process is killed twice.
C16_TerminationIdempotent ==
    [][Deactivates =>
          /\ ext'.pythonProcess = "absent"
          /\ proc'.kills <= 1
          /\ (ext.pythonProcess = "absent" => proc' = proc)]_vars

\* deactivate() was called twice on a worker that had already exited
C16_Witness ==
    /\ ext.deactivations = 2
    /\ proc.state = "exited"
    /\ proc.kills = 1

\* C17: pinned build: with the bundled interpreter missing or unusable when the
\* extension is activated, no worker is started, an error is shown to the user
\* and no command is registered.
C17_MissingInterpreterIsFatal ==
    hostBuild = "pinned" /\ env.venv # "usable" /\ ext.pc \in {"active", "failed"} =>
        /\ proc = NoProcess
        /\ ext.errors # {}
        /\ ~ext.commands

\* the candidate at position k answers and none before it does
FirstToAnswer(cands, answers, k) ==
    /\ k \in 1..Len(cands)
    /\ cands[k] \in answers
    /\ \A j \in 1..(k - 1) : cands[j] \notin answers

LauncherList ==
    IF env.platform = "win32" THEN <<"py", "python", "python3">> ELSE <<"python3", "python">>

\* C18: launcher-probing build: the worker is spawned with the first candidate,
\* in list order, that answers --version; if none answers no worker is spawned
\* and the handle stays absent.
C18_FirstAnsweringLauncher ==
    hostBuild = "fallback" /\ ext.pc = "active" =>
        IF \E k \in 1..Len(LauncherList) : LauncherList[k] \in env.answers
        THEN \E k \in 1..Len(LauncherList) :
                 FirstToAnswer(LauncherList, env.answers, k) /\ proc.cmd = LauncherList[k]
        ELSE proc = NoProcess /\ ext.pythonProcess = "absent"

\* on Windows py does not answer and python is taken, python3 answering too
C18_Witness ==
    /\ hostBuild = "fallback"
    /\ env.platform = "win32"
    /\ env.answers = {"python", "python3"}
    /\ proc.cmd = "python"
    /\ proc.state = "running"

-----------------------------------------------------------------------------
(* Claims about the order of messages *)

\* invocation i starts its poll loop in this step
StartsLoop(i) == inv[i].interval = "none" /\ inv'[i].interval # "none"

\* C19: when a creation succeeds, task_started for the issued identifier is
\* posted in the step that creates the poll timer, hence before any task_update
\* of the loop; the identifier is kept, and every request of the loop is for it.
C19_StartedThenPolled ==
    [][\A i \in Invocations :
          /\ StartsLoop(i) =>
                 LET t == IssuedTaskId(i)
                 IN  /\ inv'[i].taskId = t
                     /\ channel' = <<Obj([type |-> Str("task_started"), task_id |-> Str(t)])>>
          /\ ForwardsResponse(i) => inv[i].interval # "none"
          /\ inv[i].interval # "none" => inv'[i].taskId = inv[i].taskId
          /\ inv'[i].polled \subseteq {inv'[i].taskId}]_vars

\* two loops, each polling its own task
C19_Witness ==
    /\ inv[1].polled = {"T1"}
    /\ inv[2].polled = {"T2"}

\* the plan of a simulated run
ThreeSteps == Arr(<<Str("Gather context"), Str("Plan actions"), Str("Execute steps")>>)

\* m is an update of the simulated run at step n
IsSimUpdate(m, n) ==
    /\ TypeOf(m) = Str("task_update")
    /\ Prop(PayloadOf(m), "plan") = ThreeSteps
    /\ Prop(PayloadOf(m), "currentStepIndex") = Num(n)

\* m names completion under all three names
CarriesAllTerminalNames(m) ==
    \A f \in TerminalFieldNames : Prop(PayloadOf(m), f) = Str("completed")

\* the simulation timer of invocation i fires in this step
SimTicks(i) == inv'[i].idx # inv[i].idx

\* C20: a simulated run posts task_started and the update for step 0 when it
\* starts; every tick advances currentStepIndex by one over the same three-step
\* plan; the tick that reaches the last step also posts, as the last message,
\* an update carrying status, task_status and state = 'completed' and cancels
\* the timer; after that the run posts nothing.
C20_SimulatedRunOrder ==
    [][\A i \in Invocations :
          /\ inv[i].sim = "none" /\ inv'[i].sim # "none" =>
                 /\ Len(channel') = 2
                 /\ TypeOf(channel'[1]) = Str("task_started")
                 /\ IsSimUpdate(channel'[2], 0)
                 /\ ~CarriesAllTerminalNames(channel'[2])
                 /\ inv'[i].idx = 0 /\ inv'[i].sim = "active"
          /\ inv[i].sim = "active" /\ Posts(i) => SimTicks(i)
          /\ SimTicks(i) =>
                 /\ inv[i].sim = "active"
                 /\ inv'[i].idx = inv[i].idx + 1
                 /\ IsSimUpdate(channel'[1], inv'[i].idx)
                 /\ ~CarriesAllTerminalNames(channel'[1])
                 /\ IF inv'[i].idx = Len(ThreeSteps.a) - 1
                    THEN /\ Len(channel') = 2
                         /\ IsSimUpdate(channel'[2], inv'[i].idx)
                         /\ CarriesAllTerminalNames(channel'[2])
                         /\ inv'[i].sim = "cleared"
                    ELSE Len(channel') = 1 /\ inv'[i].sim = "active"
          /\ inv[i].sim = "cleared" => ~Posts(i) /\ inv'[i].sim = "cleared"]_vars

\* a simulated run has just posted its final update and stopped
C20_Witness ==
    \E i \in Invocations :
        /\ inv[i].sim = "cleared"
        /\ Len(channel) = 2
        /\ CarriesAllTerminalNames(channel[2])

-----------------------------------------------------------------------------
(* Claims about the creation deadline *)

\* the deadline of invocation i fires in this step
DeadlineExpires(i) == inv[i].deadline = "armed" /\ inv'[i].deadline = "fired"

\* C21: fallback build: when the deadline fires on a creation request that is
\* still unanswered the request is aborted and a simulated run over the three
\* fixed steps starts; when it fires on a request that has already settled
\* nothing else happens; once a response has arrived the deadline is cleared.
C21_DeadlineAbortsUnanswered ==
    [][\A i \in Invocations : hostBuild = "fallback" =>
          /\ DeadlineExpires(i) /\ inv[i].pc = "fetching" =>
                 /\ inv'[i].pc = "done" /\ inv'[i].res = "none"
                 /\ inv'[i].sim = "active"
                 /\ Len(channel') = 2
                 /\ TypeOf(channel'[1]) = Str("task_started")
                 /\ IsSimUpdate(channel'[2], 0)
          /\ DeadlineExpires(i) /\ inv[i].pc # "fetching" =>
                 /\ inv' = [inv EXCEPT ![i].deadline = "fired"]
                 /\ channel' = channel
          /\ inv'[i].res # "none" => inv'[i].deadline = "cleared"]_vars

\* the deadline fired on an unanswered request and the simulated run is on
C21_Witness ==
    \E i \in Invocations :
        /\ hostBuild = "fallback"
        /\ inv[i].deadline = "fired"
        /\ inv[i].res = "none"
        /\ inv[i].sim = "active"
        /\ inv[i].idx = 1

-----------------------------------------------------------------------------
(* Claims about the snapshot as a whole *)

\* C22: in every reachable state the snapshot's current-step index does not
\* exceed the length of its plan.
C22_IndexWithinPlan == data.currentStepIndex.n <= Len(data.plan.a)

\* the snapshot once the task_started message of task t has been applied
AfterTaskStarted(t) == Merge(uiBuild, data, TaskStarted(t))

\* C23: after the task_started message of a new task is applied the snapshot
\* holds no plan, step index, artifacts, next, proposed action or reasoning
\* trace of the task before it.
C23_NewTaskClearsSnapshot ==
    \A t \in TaskIds :
        /\ AfterTaskStarted(t).plan = Arr(<<>>)
        /\ AfterTaskStarted(t).currentStepIndex = Num(0)
        /\ AfterTaskStarted(t).artifacts = Arr(<<>>)
        /\ AfterTaskStarted(t).next = Undef
        /\ AfterTaskStarted(t).proposedToolCall = Undef
        /\ AfterTaskStarted(t).thought_trace = Undef

-----------------------------------------------------------------------------
(* Claims about the worker process *)

\* the worker exits in this step
WorkerExits == proc.state = "running" /\ proc'.state = "exited"

\* C24: the exit of the worker, at any time, cancels no poll loop and changes
\* no task state: every timer, request in flight, message on its way and the
\* snapshot are after the exit what they were before it.
C24_ExitLeavesLoopsAlone ==
    [][WorkerExits =>
          /\ inv' = inv
          /\ channel' = channel
          /\ latest' = latest
          /\ ext' = ext
          /\ uiVars' = uiVars]_vars

\* the worker is gone and a loop is still polling
C24_Witness ==
    /\ proc.state = "exited"
    /\ \E i \in Invocations :
          /\ inv[i].interval = "active"
          /\ inv[i].inflight > 0

\* the health request is issued in this step
HealthRequested == ext.health # "requested" /\ ext'.health = "requested"

\* C25: the health request is issued only when the timer set at launch fires
\* and only if the process handle is set at that moment; once the timer has
\* fired no further request is issued; and whatever the state of the check,
\* osae.start, once registered, begins its create request.
C25_HealthProbeGatesNothing ==
    /\ [][/\ HealthRequested => ext.health = "armed" /\ ext.pythonProcess = "present"
          /\ ext.health \notin {"none", "armed"} => ext'.health \notin {"none", "armed"}
          /\ ext.health \notin {"none", "armed", "requested"} => ext'.health = ext.health]_vars
    /\ [](ext.commands /\ ChannelClear /\ inv[MaxStarts].pc = "idle"
            => \E i \in Invocations : ENABLED StartCommand(i))

\* a create request was begun although the health check failed, and the next
\* invocation can begin too
C25_Witness ==
    /\ ext.health = "failed"
    /\ inv[1].pc = "fetching"
    /\ inv[MaxStarts].pc = "idle"

-----------------------------------------------------------------------------
(* Claims about notifications *)

\* invocation i ended on a protocol failure of the create request: a status
\* that is not a success, no response, or a body without a task identifier
CreationProtocolFailure(i) ==
    /\ inv[i].pc = "done"
    /\ \/ inv[i].res \in {"notOk", "absent"}
       \/ inv[i].res = "ok" /\ inv[i].taskId = "" /\ inv[i].sim = "none"

\* C26: every osae.start that ended on a protocol failure of the create
\* request has shown an error notification.
C26_CreationFailureNotified ==
    \A i \in Invocations : CreationProtocolFailure(i) => inv[i].shown # ""

-----------------------------------------------------------------------------
(* Claims about the two message shapes *)

\* payloads with no data member of their own, or a null one
FlatPayloads ==
    SingleFieldPayloads \cup MultiFieldPayloads
        \cup {Null, EmptyObj, Str("oops"), Arr(<<Str("a")>>),
              Obj([prompt |-> Str("y"), data |-> Null])}

\* payloads that have a data member themselves
NestedPayloads ==
    { Obj([prompt |-> Str("x"), data |-> One("prompt", Str("y"))]),
      Obj([data |-> One("next", Str("Executor"))]),
      Obj([plan |-> Arr(<<Str("a")>>), data |-> Str("oops")]) }

\* on the current snapshot the bare payload and its envelope give the same
SameEitherShape(P) ==
    Merge(uiBuild, data, P) = Merge(uiBuild, data, Envelope("task_update", P))

\* C27 (as stated): for every payload and every prior snapshot, the bare
\* payload yields the same snapshot as the envelope around it.
C27_ShapesEquivalent == \A P \in FlatPayloads \cup NestedPayloads : SameEitherShape(P)

\* C27: for every payload without a data member of its own and every prior
\* snapshot, the bare payload yields the same snapshot as the envelope
\* around it.
C27_FlatShapesEquivalent == \A P \in FlatPayloads : SameEitherShape(P)

\* a snapshot that is no longer the initial one, and a payload that changes it
\* in the same way in either shape
C27_Witness ==
    /\ data.prompt = Str("x")
    /\ data.plan # Arr(<<>>)
    /\ SameEitherShape(One("prompt", Str("y")))
    /\ Merge(uiBuild, data, One("prompt", Str("y"))).prompt = Str("y")

-----------------------------------------------------------------------------
(* Claims about the reset *)

\* a POST /reset is answered with success in this step
ResetSucceeds == ext'.resetOks = ext.resetOks + 1

\* a POST /reset ends otherwise in this step
ResetFails == ext'.resetPending < ext.resetPending /\ ext'.resetOks = ext.resetOks

\* C28: an osae.reset message issues one POST /reset; when the call succeeds
\* the panel is reloaded and shows the initial snapshot, with no approval
\* card; when it fails the panel and what it shows are left as they were.
C28_ResetRefreshesPanel ==
    [][/\ ext'.resetCalls # ext.resetCalls =>
             /\ ext'.resetCalls = ext.resetCalls + 1
             /\ ext'.resetPending = ext.resetPending + 1
       /\ ResetSucceeds => data' = InitialData /\ ~approvalShown'
       /\ ResetFails => uiVars' = uiVars /\ ext'.panelHtml = ext.panelHtml]_vars

-----------------------------------------------------------------------------
(* Claims about the simulated run *)

\* C29: an invocation that runs, or has run, the simulation has no poll timer,
\* no request in flight and has requested no task of the worker; and a tick of
\* the simulation advances its own index by one and touches no other
\* invocation.
C29_SimulationIsLocal ==
    /\ [](\A i \in Invocations : inv[i].sim # "none" =>
              /\ inv[i].interval = "none"
              /\ inv[i].inflight = 0
              /\ inv[i].polled = {})
    /\ [][\A i \in Invocations : SimTicks(i) =>
              /\ inv[i].sim = "active"
              /\ inv'[i].idx = inv[i].idx + 1
              /\ \A j \in Invocations \ {i} : inv'[j] = inv[j]]_vars

\* a simulated run has ended without a request, beside a loop that polls
C29_Witness ==
    \E i, j \in Invocations :
        /\ inv[i].sim = "cleared"
        /\ inv[i].idx = Len(SimulatedPlan.a) - 1
        /\ inv[i].polled = {}
        /\ inv[j].polled # {}

-----------------------------------------------------------------------------
(* Claims about the proposed action *)

\* the action a poll response itself proposes: its proposedToolCall, else the
\* call of its first artifact, else none
ActionOf(j) ==
    IF Prop(j, "proposedToolCall").t = "string" THEN Prop(j, "proposedToolCall")
    ELSE IF Prop(First(Prop(j, "artifacts")), "call").t = "string"
         THEN Prop(First(Prop(j, "artifacts")), "call")
    ELSE Undef

-----------------------------------------------------------------------------
(* Claims about overlapping poll requests *)

\* C31: a poll request that stays pending blocks nothing: while it is pending
\* the timer of its loop still issues the next request, and the response of a
\* later request is forwarded while the pending one stays pending.
C31_HungRequestBlocksNothing ==
    \A i \in Invocations :
        /\ ChannelClear /\ inv[i].interval = "active"
           /\ inv[i].inflight >= 1 /\ inv[i].inflight < MaxInflight
              => ENABLED TimerFires(i)
        /\ ChannelClear /\ inv[i].inflight >= 2
              => \A json \in PollBodies(inv[i].taskId) :
                     ENABLED (TickResponds(i, json) /\ inv'[i].inflight >= 1)

\* a response was forwarded while another request of the same loop is pending
C31_Witness ==
    \E i \in Invocations :
        /\ inv[i].interval = "active"
        /\ inv[i].inflight >= 1
        /\ Len(channel) = 1
        /\ TypeOf(channel[1]) = Str("task_update")
        /\ \A j \in Invocations \ {i} : inv[j].pc = "idle"

\* the poll timer of loop i is cancelled in this step
CancelsTimer(i) == inv[i].interval = "active" /\ inv'[i].interval = "cleared"

\* C32: the step that cancels a poll timer has posted the task_update with the
\* completion body that made it do so, and a posted message is taken off the
\* channel only by the webview receiving and merging it.
C32_TerminalResponseDelivered ==
    [][/\ \A i \in Invocations : CancelsTimer(i) =>
              \E json \in CompletionBodies : channel' = <<Envelope("task_update", json)>>
       /\ channel # <<>> =>
              /\ channel' = Tail(channel)
              /\ data' = Merge(uiBuild, data, Head(channel))]_vars

\* the last request of a loop brought the completion, which is on its way
C32_Witness ==
    \E i \in Invocations :
        /\ inv[i].interval = "cleared"
        /\ inv[i].inflight = 0
        /\ channel = <<Envelope("task_update", One("task_status", Str("completed")))>>

\* C33: once a loop has forwarded a completion and cancelled its timer, no
\* further response of that loop is forwarded, not even of a request that was
\* in flight at that moment.
C33_NothingAfterTerminalUpdate ==
    [][\A i \in Invocations :
          inv[i].interval = "cleared" => ~ForwardsResponse(i)]_vars

-----------------------------------------------------------------------------
(* Claims about the two kinds of run *)

\* C34: no invocation of osae.start has both a poll timer and a simulation
\* timer, now or in succession: an invocation that created a poll timer never
\* starts the simulation, one that started the simulation never creates a
\* poll timer.
C34_LoopOrSimulationNotBoth ==
    /\ [](\A i \in Invocations : inv[i].interval = "none" \/ inv[i].sim = "none")
    /\ [][\A i \in Invocations :
              /\ inv[i].interval # "none" => inv'[i].sim = "none"
              /\ inv[i].sim # "none" => inv'[i].interval = "none"]_vars

\* both kinds of run exist, in different invocations
C34_Witness ==
    \E i, j \in Invocations :
        /\ inv[i].interval = "active" /\ inv[i].sim = "none"
        /\ inv[j].sim = "active" /\ inv[j].interval = "none"

\* the invocations whose simulation timer is running
Simulating == {i \in Invocations : inv[i].sim = "active"}

\* C35: at most one simulated run is active at a time, and none is active
\* while a poll loop is.
C35_OneRunAtATime ==
    /\ Cardinality(Simulating) <= 1
    /\ Simulating # {} => \A j \in Invocations : inv[j].interval # "active"

-----------------------------------------------------------------------------
(* Claims about the dashboard panel *)

\* invocation i has a poll loop or a simulated run going
Running(i) == inv[i].interval = "active" \/ inv[i].sim = "active"

\* C36: while a panel is open, every running poll loop and simulated run
\* posts to that panel: the panel it holds is the open one.
C36_RunsPostToOpenPanel ==
    \A i \in Invocations :
        Running(i) /\ ext.panelId # 0 => inv[i].panel = ext.panelId

-----------------------------------------------------------------------------
(* Claims about shutdown *)

\* deactivate() has been called
ShutDown == ext.deactivations > 0

\* C37: once deactivate() has been called no poll timer, simulation timer or
\* health timer is left, and from then on no poll request is issued and
\* nothing is posted to the panel.
C37_ShutdownStopsEverything ==
    /\ [](ShutDown =>
            /\ \A i \in Invocations : ~Running(i)
            /\ ext.health # "armed")
    /\ [][ShutDown =>
            /\ \A i \in Invocations : inv'[i].inflight <= inv[i].inflight
            /\ channel = <<>> => channel' = <<>>]_vars

-----------------------------------------------------------------------------
(* Claims about the panel handle *)

\* C38: at most one dashboard panel is open at any time; the handle is unset
\* exactly when no panel was created yet or the panel created last has been
\* disposed, and set it refers to the one open panel; a panel is created only
\* while the handle is unset.
C38_OnePanel ==
    /\ [](/\ Cardinality(ext.panelsOpen) <= 1
          /\ ext.panelId = 0 <=>
                 (ext.panelsCreated = 0 \/ ext.panelsCreated \notin ext.panelsOpen)
          /\ ext.panelId # 0 => ext.panelsOpen = {ext.panelId})
    /\ [][ext'.panelsCreated # ext.panelsCreated =>
              /\ ext.panelId = 0
              /\ ext'.panelId = ext'.panelsCreated
              /\ ext'.panelsOpen = {ext'.panelsCreated}]_vars

\* the dashboard was closed and opened again: the second panel is the open one
C38_Witness ==
    /\ ext.panelsCreated = 2
    /\ ext.panelId = 2
    /\ ext.panelsOpen = {2}

-----------------------------------------------------------------------------
(* Claims about repeated messages *)

\* the snapshot after message m
Once(m) == Merge(uiBuild, data, m)

\* the snapshot after message m has been applied twice in a row
Twice(m) == Merge(uiBuild, Once(m), m)

\* C39: for every snapshot and every message, applying the message twice in
\* a row gives the snapshot that applying it once gives.
C39_MergeIdempotent == \A m \in MergeMessages : Twice(m) = Once(m)

\* a snapshot with a plan and an index, and a message that replaces both
C39_Witness ==
    LET m == Obj([plan |-> Arr(<<Str("a"), Str("b")>>), currentStepIndex |-> Num(1)])
    IN  /\ data.plan = Arr(<<Str("c")>>)
        /\ data.prompt = Str("y")
        /\ Once(m) # data
        /\ Once(m).prompt = Str("y")
        /\ Twice(m) = Once(m)

====
